---- MODULE Spec2Model ----
(***************************************************************************)
(* Model of src/network/builder.rs: the NetworkBuilder (builder(), its     *)
(* setters and the consuming async build()) and the peer address parser    *)
(* (parse_str_addr / parse_addr with the ParseErr taxonomy).               *)
(*                                                                         *)
(* Two specifications share the variables:                                 *)
(*   Spec      - the builder lifecycle: create, setters, build, start      *)
(*   ParseSpec - calls of parse_addr / parse_str_addr on bounded inputs    *)
(***************************************************************************)
EXTENDS Integers, Sequences, FiniteSets, TLC

\* ---------------------------------------------------------------- bounds
MaxTagLen == 2      \* longest chain-spec protocol id passed to a setter
MaxBootNodes == 2   \* longest iterator passed to set_boot_nodes
MaxSegs == 3        \* longest structured Multiaddr given to parse_addr
MaxTextLen == 3     \* longest arbitrary text (in '/'-separated parts)

\* ------------------------------------------------------- Rust Option
None == [some |-> FALSE]
Some(x) == [some |-> TRUE, val |-> x]

RECURSIVE SeqsUpTo(_, _)
SeqsUpTo(S, n) ==
    IF n = 0 THEN {<<>>}
    ELSE LET shorter == SeqsUpTo(S, n - 1)
         IN shorter \cup {Append(s, x) : s \in {t \in shorter : Len(t) = n - 1}, x \in S}

\* ========================================================= multihashes
\* The multihashes used as p2p payloads.  A Multihash value is always
\* structurally well formed (code + digest); whether it is an acceptable
\* peer identity is decided by PeerId::from_multihash.
MhSha256 == [code |-> "sha2-256", digest |-> "Sk5HQbn6"]
MhIdentity == [code |-> "identity", digest |-> "D3KooWD3"]
MhSha1 == [code |-> "sha1", digest |-> "dqvXR93V"]
Multihashes == {MhSha256, MhIdentity, MhSha1}

\* PeerId::from_multihash: Ok(PeerId) for a multihash that encodes a peer
\* identity, Err(()) otherwise.
from_multihash(key) ==
    IF key.code \in {"sha2-256", "identity"}
    THEN [ok |-> TRUE, peer |-> [multihash |-> key]]
    ELSE [ok |-> FALSE]

\* ============================================================ Multiaddr
\* multiaddr::Protocol: one segment of an address.
Ip4(a) == [ip4 |-> a]
Tcp(p) == [tcp |-> p]
P2p(k) == [p2p |-> k]
IsP2p(seg) == DOMAIN seg = {"p2p"}

Protocols == {Ip4(<<198, 51, 100, 19>>), Tcp(30333)} \cup {P2p(k) : k \in Multihashes}

\* Multiaddr: an ordered sequence of segments.
Multiaddrs == SeqsUpTo(Protocols, MaxSegs)

\* Multiaddr::pop: removes and returns the last segment, None when empty.
pop(addr) ==
    IF Len(addr) = 0
    THEN [popped |-> None, addr |-> addr]
    ELSE [popped |-> Some(addr[Len(addr)]), addr |-> SubSeq(addr, 1, Len(addr) - 1)]

\* ------------------------------------------------- text form of addresses
\* A text is modelled by its split on '/': "/ip4/1.2.3.4" is
\* <<"", "ip4", "1.2.3.4">>, "" is <<"">>, a text without a leading '/'
\* has a non-empty first part.
Ip4Text == "198.51.100.19" :> <<198, 51, 100, 19>>
PortText == "30333" :> 30333
Base58 == ("QmSk5HQbn6LhUwDiNMseVUjuRYhEtYj4aUZ6WfWoGURpdV" :> MhSha256)
       @@ ("12D3KooWD3eckifWpRn9wQpMG9R9hX3sD158z7EqHWmweQAJU5SA" :> MhIdentity)
       @@ ("5dqvXR93VnV1Grn96DBGdqEQAbJe1e" :> MhSha1)

Inverse(f, v) == CHOOSE k \in DOMAIN f : f[k] = v

\* fmt::Display for Protocol / Multiaddr
SegText(seg) ==
    IF DOMAIN seg = {"ip4"} THEN <<"ip4", Inverse(Ip4Text, seg.ip4)>>
    ELSE IF DOMAIN seg = {"tcp"} THEN <<"tcp", Inverse(PortText, seg.tcp)>>
    ELSE <<"p2p", Inverse(Base58, seg.p2p)>>

RECURSIVE SegsText(_)
SegsText(addr) ==
    IF addr = <<>> THEN <<>> ELSE SegText(Head(addr)) \o SegsText(Tail(addr))

to_string(addr) == <<"">> \o SegsText(addr)

\* Protocol::from_str_parts and Multiaddr::from_str
RECURSIVE from_str_parts(_, _)
from_str_parts(parts, acc) ==
    IF parts = <<>> THEN [ok |-> TRUE, addr |-> acc]
    ELSE IF Head(parts) \notin {"ip4", "tcp", "p2p"}
         THEN [ok |-> FALSE, err |-> "UnknownProtocolString"]
    ELSE IF Len(parts) < 2
         THEN [ok |-> FALSE, err |-> "InvalidProtocolString"]
    ELSE LET n == parts[1]
             v == parts[2]
             rest == SubSeq(parts, 3, Len(parts))
         IN IF n = "ip4" /\ v \in DOMAIN Ip4Text
                THEN from_str_parts(rest, Append(acc, Ip4(Ip4Text[v])))
            ELSE IF n = "tcp" /\ v \in DOMAIN PortText
                THEN from_str_parts(rest, Append(acc, Tcp(PortText[v])))
            ELSE IF n = "p2p" /\ v \in DOMAIN Base58
                THEN from_str_parts(rest, Append(acc, P2p(Base58[v])))
            ELSE [ok |-> FALSE, err |-> "ParsingError"]

from_str(text) ==
    IF Head(text) # ""
    THEN [ok |-> FALSE, err |-> "InvalidMultiaddr"]
    ELSE from_str_parts(Tail(text), <<>>)

Tokens == {"ip4", "tcp", "p2p", "0OIl"} \cup DOMAIN Ip4Text \cup DOMAIN PortText \cup DOMAIN Base58

Texts == {<<f>> \o s : f \in {"", "not a valid multiaddr"}, s \in SeqsUpTo(Tokens, MaxTextLen)}
         \cup {to_string(a) : a \in Multiaddrs}

\* ============================================================== ParseErr
MultiaddrParse(err) == [ok |-> FALSE, err |-> "MultiaddrParse", source |-> err]
InvalidPeerId == [ok |-> FALSE, err |-> "InvalidPeerId"]
PeerIdMissing == [ok |-> FALSE, err |-> "PeerIdMissing"]
Ok(who, addr) == [ok |-> TRUE, peer |-> who, addr |-> addr]

\* impl From<multiaddr::Error> for ParseErr
From(err) == MultiaddrParse(err)

\* Variants of parse_addr with one slip each.
\* The popped address is discarded and the argument returned whole.
parse_addr_keeps_identity(addr) ==
    LET p == pop(addr)
    IN IF p.popped.some /\ IsP2p(p.popped.val)
       THEN LET who == from_multihash(p.popped.val.p2p)
            IN IF who.ok THEN Ok(who.peer, addr) ELSE InvalidPeerId
       ELSE PeerIdMissing

\* The catch-all arm reports InvalidPeerId.
parse_addr_missing_as_invalid(addr) ==
    LET p == pop(addr)
    IN IF p.popped.some /\ IsP2p(p.popped.val)
       THEN LET who == from_multihash(p.popped.val.p2p)
            IN IF who.ok THEN Ok(who.peer, p.addr) ELSE InvalidPeerId
       ELSE InvalidPeerId

\* The map_err of from_multihash reports PeerIdMissing.
parse_addr_invalid_as_missing(addr) ==
    LET p == pop(addr)
    IN IF p.popped.some /\ IsP2p(p.popped.val)
       THEN LET who == from_multihash(p.popped.val.p2p)
            IN IF who.ok THEN Ok(who.peer, p.addr) ELSE PeerIdMissing
       ELSE PeerIdMissing

\* Every p2p segment of the address is decoded, not the trailing one only.
parse_addr_validates_all(addr) ==
    LET p == pop(addr)
    IN IF p.popped.some /\ IsP2p(p.popped.val)
       THEN IF \A i \in 1 .. Len(addr) : IsP2p(addr[i]) => from_multihash(addr[i].p2p).ok
            THEN Ok(from_multihash(p.popped.val.p2p).peer, p.addr)
            ELSE InvalidPeerId
       ELSE PeerIdMissing

\* parse_addr: splits a Multiaddr into PeerId and Multiaddr.
parse_addr(addr) ==
    LET p == pop(addr)
    IN IF p.popped.some /\ IsP2p(p.popped.val)
       THEN LET who == from_multihash(p.popped.val.p2p)
            IN IF who.ok THEN Ok(who.peer, p.addr) ELSE InvalidPeerId
       ELSE PeerIdMissing

\* Variant of parse_str_addr: a text that does not parse is treated as the
\* empty address.
parse_str_addr_lenient(addr_str) ==
    LET parsed == from_str(addr_str)
    IN IF parsed.ok THEN parse_addr(parsed.addr) ELSE parse_addr(<<>>)

\* parse_str_addr: addr_str.parse()? then parse_addr.
parse_str_addr(addr_str) ==
    LET parsed == from_str(addr_str)
    IN IF parsed.ok THEN parse_addr(parsed.addr) ELSE From(parsed.err)

\* ======================================================== NetworkBuilder
\* Opaque task-spawning closures a caller may pass to with_executor.
Executors == {"spawn_on_pool", "spawn_inline"}

\* Bytes a caller may put in a chain-spec protocol id ('s', 'u').
Bytes == {115, 117}
TagInputs == SeqsUpTo(Bytes, MaxTagLen)

\* (PeerId, Multiaddr) pairs, as produced by the address parser.
BootNodeItems ==
    {<<r.peer, r.addr>> :
        r \in {parse_addr(<<Ip4(<<198, 51, 100, 19>>), Tcp(30333), P2p(k)>>) :
                  k \in {MhSha256, MhIdentity}}}
BootNodeInputs == SeqsUpTo(BootNodeItems, MaxBootNodes)

\* Iterator::collect: drains the iterator front to back into a new vector.
RECURSIVE collect(_)
collect(iter) ==
    IF iter = <<>> THEN <<>> ELSE <<Head(iter)>> \o collect(Tail(iter))

\* pub fn builder() -> NetworkBuilder
builder ==
    [executor |-> None,
     chain_spec_protocol_id |-> <<115, 117, 112>>,
     boot_nodes |-> <<>>]

with_executor(self, executor) ==
    [self EXCEPT !.executor = Some(executor)]

\* Variant of set_boot_nodes: extends the list instead of replacing it.
set_boot_nodes_extend(self, list) ==
    [self EXCEPT !.boot_nodes = @ \o collect(list)]

set_boot_nodes(self, list) ==
    [self EXCEPT !.boot_nodes = collect(list)]

\* Variant of with_boot_nodes: its own implementation, pushing each item.
with_boot_nodes_push(self, list) ==
    [self EXCEPT !.boot_nodes = @ \o collect(list)]

with_boot_nodes(self, list) ==
    LET self1 == set_boot_nodes(self, list) IN self1

\* Variant of set_chain_spec_protocol_id: rebuilds the builder from defaults.
set_chain_spec_protocol_id_resets(self, id) ==
    [builder EXCEPT !.chain_spec_protocol_id = collect(id)]

set_chain_spec_protocol_id(self, id) ==
    [self EXCEPT !.chain_spec_protocol_id = collect(id)]

with_chain_spec_protocol_id(self, id) ==
    LET self1 == set_chain_spec_protocol_id(self, id) IN self1

\* worker::Config { known_addresses, chain_spec_protocol_id } as build() fills it.
Config(self) ==
    [known_addresses |-> self.boot_nodes,
     chain_spec_protocol_id |-> self.chain_spec_protocol_id]

\* The public methods of impl NetworkBuilder and the field each setter assigns.
Methods ==
    {"with_executor", "set_boot_nodes", "with_boot_nodes",
     "set_chain_spec_protocol_id", "with_chain_spec_protocol_id", "build"}
Settings == {"executor", "boot_nodes", "chain_spec_protocol_id"}
InPlaceMethods(setting) == {m \in Methods : m = "set_" \o setting}
ChainingMethods(setting) == {m \in Methods : m = "with_" \o setting}

\* A builder value that has been moved out of (consumed by build).
Moved == [moved |-> TRUE]

\* ================================================================ state
VARIABLES
    net_builder,    \* the caller's NetworkBuilder, or Moved
    pc,             \* "configuring", "built" (future created), "starting", "running"
    future,         \* the self captured by the future build() returned
    handed,         \* the worker::Config that Network::start received
    starts,         \* number of invocations of Network::start
    pre,            \* history: the builder before the most recent call
    last,           \* history: the most recent call (method, setting, argument)
    last_boot_arg,  \* history: argument of the most recent boot-node call
    input,          \* parser: the argument of the most recent parser call
    result          \* parser: what that call returned

vars == <<net_builder, pc, future, handed, starts, pre, last, last_boot_arg, input, result>>
builderVars == <<net_builder, pc, future, handed, starts, pre, last, last_boot_arg>>
parserVars == <<input, result>>

Init ==
    /\ net_builder = builder
    /\ pc = "configuring"
    /\ future = None
    /\ handed = None
    /\ starts = 0
    /\ pre = builder
    /\ last = [method |-> "builder", setting |-> "all", arg |-> <<>>]
    /\ last_boot_arg = <<>>
    /\ input = [entry |-> "none"]
    /\ result = [entry |-> "none"]

Call(method, setting, arg, after) ==
    /\ pc = "configuring"
    /\ net_builder' = after
    /\ pre' = net_builder
    /\ last' = [method |-> method, setting |-> setting, arg |-> arg]
    /\ UNCHANGED <<pc, future, handed, starts, parserVars>>

WithExecutor ==
    \E e \in Executors :
        /\ Call("with_executor", "executor", e, with_executor(net_builder, e))
        /\ UNCHANGED last_boot_arg

SetBootNodes ==
    \E list \in BootNodeInputs :
        /\ Call("set_boot_nodes", "boot_nodes", list, set_boot_nodes(net_builder, list))
        /\ last_boot_arg' = list

WithBootNodes ==
    \E list \in BootNodeInputs :
        /\ Call("with_boot_nodes", "boot_nodes", list, with_boot_nodes(net_builder, list))
        /\ last_boot_arg' = list

SetChainSpecProtocolId ==
    \E id \in TagInputs :
        /\ Call("set_chain_spec_protocol_id", "chain_spec_protocol_id", id,
                set_chain_spec_protocol_id(net_builder, id))
        /\ UNCHANGED last_boot_arg

WithChainSpecProtocolId ==
    \E id \in TagInputs :
        /\ Call("with_chain_spec_protocol_id", "chain_spec_protocol_id", id,
                with_chain_spec_protocol_id(net_builder, id))
        /\ UNCHANGED last_boot_arg

\* build(self): the call moves the builder into the returned future.
Build ==
    /\ pc = "configuring"
    /\ future' = Some(net_builder)
    /\ net_builder' = Moved
    /\ pc' = "built"
    /\ pre' = net_builder
    /\ last' = [method |-> "build", setting |-> "all", arg |-> <<>>]
    /\ UNCHANGED <<handed, starts, last_boot_arg, parserVars>>

\* Variant of Start: the future stays runnable after it called start.
StartRepolled ==
    /\ pc = "built"
    /\ handed' = Some(Config(future.val))
    /\ starts' = starts + 1
    /\ UNCHANGED <<net_builder, pc, future, pre, last, last_boot_arg, parserVars>>

\* The future is awaited: its body builds the Config and calls Network::start.
Start ==
    /\ pc = "built"
    /\ handed' = Some(Config(future.val))
    /\ starts' = starts + 1
    /\ future' = None
    /\ pc' = "starting"
    /\ UNCHANGED <<net_builder, pre, last, last_boot_arg, parserVars>>

\* Network::start(...).await completes and build returns the Network.
StartReturns ==
    /\ pc = "starting"
    /\ pc' = "running"
    /\ UNCHANGED <<net_builder, future, handed, starts, pre, last, last_boot_arg, parserVars>>

Next ==
    \/ WithExecutor
    \/ SetBootNodes
    \/ WithBootNodes
    \/ SetChainSpecProtocolId
    \/ WithChainSpecProtocolId
    \/ Build
    \/ Start
    \/ StartReturns

Spec == Init /\ [][Next]_vars

\* ------------------------------------------------------ parser calls
Pending == [entry |-> "none"]

\* One call of a parser entry point on an argument drawn from the bounded sets.
ParseInit ==
    /\ net_builder = builder
    /\ pc = "configuring"
    /\ future = None
    /\ handed = None
    /\ starts = 0
    /\ pre = builder
    /\ last = [method |-> "builder", setting |-> "all", arg |-> <<>>]
    /\ last_boot_arg = <<>>
    /\ input \in {[entry |-> "parse_addr", addr |-> a] : a \in Multiaddrs}
                 \cup {[entry |-> "parse_str_addr", addr_str |-> t] : t \in Texts}
    /\ result = Pending

CallParseAddr ==
    /\ input.entry = "parse_addr"
    /\ result = Pending
    /\ result' = parse_addr(input.addr)
    /\ UNCHANGED <<input, builderVars>>

CallParseStrAddr ==
    /\ input.entry = "parse_str_addr"
    /\ result = Pending
    /\ result' = parse_str_addr(input.addr_str)
    /\ UNCHANGED <<input, builderVars>>

ParseNext ==
    \/ CallParseAddr
    \/ CallParseStrAddr

ParseSpec == ParseInit /\ [][ParseNext]_vars

\* ============================================================ properties
Returned == result # Pending

\* The structured addresses the current parser call is about: the argument of
\* parse_addr, or the addresses whose text form is the argument of
\* parse_str_addr.
InputAddrs ==
    IF input.entry = "parse_addr" THEN {input.addr}
    ELSE IF input.entry = "parse_str_addr"
         THEN {a \in Multiaddrs : to_string(a) = input.addr_str}
    ELSE {}

LastSeg(a) == a[Len(a)]
EndsInP2p(a) == Len(a) > 0 /\ IsP2p(LastSeg(a))
ValidIdentity(k) == from_multihash(k).ok
Kind(r) == IF r.ok THEN "Ok" ELSE r.err

DocTestText ==
    <<"", "ip4", "198.51.100.19", "tcp", "30333", "p2p",
      "QmSk5HQbn6LhUwDiNMseVUjuRYhEtYj4aUZ6WfWoGURpdV">>

\* C1: an address ending in a p2p segment with a valid multihash parses, through
\* parse_addr and through parse_str_addr on its text, to (the identity of that
\* last segment, the address without that last segment): one segment fewer,
\* every earlier segment unchanged and in place.
C1_ValidTrailingIdentityIsSplit ==
    Returned =>
        \A a \in InputAddrs :
            (EndsInP2p(a) /\ ValidIdentity(LastSeg(a).p2p)) =>
                /\ result.ok
                /\ result.peer = [multihash |-> LastSeg(a).p2p]
                /\ Len(result.addr) = Len(a) - 1
                /\ \A i \in 1 .. (Len(a) - 1) : result.addr[i] = a[i]

C1_Witness ==
    /\ input = [entry |-> "parse_str_addr", addr_str |-> DocTestText]
    /\ result = Ok([multihash |-> MhSha256], <<Ip4(<<198, 51, 100, 19>>), Tcp(30333)>>)

\* C3: an address that is empty or whose last segment is not a p2p segment
\* fails with PeerIdMissing, also when a p2p segment sits at an earlier position.
C3_NoTrailingIdentityIsPeerIdMissing ==
    Returned =>
        \A a \in InputAddrs :
            (~EndsInP2p(a)) => result = PeerIdMissing

C3_Witness ==
    /\ input = [entry |-> "parse_addr", addr |-> <<P2p(MhSha256), Tcp(30333)>>]
    /\ result = PeerIdMissing

C5_StrEntryIsFormatErrorOrParseAddr ==
    (Returned /\ input.entry = "parse_str_addr") =>
        LET parsed == from_str(input.addr_str)
        IN /\ (~parsed.ok) => result = [ok |-> FALSE, err |-> "MultiaddrParse", source |-> parsed.err]
           /\ parsed.ok => result = parse_addr(parsed.addr)
           /\ Cardinality({k \in {"Ok", "MultiaddrParse", "InvalidPeerId", "PeerIdMissing"} :
                              Kind(result) = k}) = 1
           /\ result.ok <=> (parsed.ok /\ EndsInP2p(parsed.addr)
                                /\ ValidIdentity(LastSeg(parsed.addr).p2p))

C5_Witness ==
    /\ input = [entry |-> "parse_str_addr", addr_str |-> <<"not a valid multiaddr">>]
    /\ result = [ok |-> FALSE, err |-> "MultiaddrParse", source |-> "InvalidMultiaddr"]

\* C10: the outcome of parse_addr is decided by the last segment alone; on
\* success only the last segment is removed, and earlier p2p segments stay in
\* the returned address whether or not their multihash is a peer identity.
C10_OnlyTrailingSegmentMatters ==
    (Returned /\ input.entry = "parse_addr" /\ Len(input.addr) > 0) =>
        LET a == input.addr
            trailing == LastSeg(a)
            expected == IF ~IsP2p(trailing) THEN "PeerIdMissing"
                        ELSE IF ValidIdentity(trailing.p2p) THEN "Ok"
                        ELSE "InvalidPeerId"
        IN /\ Kind(result) = expected
           /\ result.ok => /\ result.addr = SubSeq(a, 1, Len(a) - 1)
                           /\ result.peer = [multihash |-> trailing.p2p]
           /\ \A b \in Multiaddrs :
                 (Len(b) > 0 /\ LastSeg(b) = trailing) => Kind(parse_addr(b)) = Kind(result)

C10_Witness ==
    /\ input = [entry |-> "parse_addr",
                addr |-> <<P2p(MhSha1), P2p(MhIdentity), P2p(MhSha256)>>]
    /\ result = Ok([multihash |-> MhSha256], <<P2p(MhSha1), P2p(MhIdentity)>>)

\* ----------------------------------------------------- builder properties
Configuring == pc = "configuring"
Item1 == <<[multihash |-> MhSha256], <<Ip4(<<198, 51, 100, 19>>), Tcp(30333)>>>>
Item2 == <<[multihash |-> MhIdentity], <<Ip4(<<198, 51, 100, 19>>), Tcp(30333)>>>>

\* The executor a worker::Config carries, None when it has no such field.
ConfigExecutor(cfg) ==
    IF "executor" \in DOMAIN cfg THEN cfg.executor ELSE None

\* C2: the configuration Network::start receives is the complete configuration
\* the builder held when build was called: executor, chain-spec protocol id and
\* boot-node list.
C2_CompleteConfigReachesStart ==
    handed.some =>
        /\ ConfigExecutor(handed.val) = pre.executor
        /\ handed.val.chain_spec_protocol_id = pre.chain_spec_protocol_id
        /\ handed.val.known_addresses = pre.boot_nodes

\* C6: the boot-node list is exactly the argument of the most recent
\* set_boot_nodes / with_boot_nodes call, empty if there was none; nothing of an
\* earlier list is merged in and an empty argument clears the list.
C6_LastBootNodesWin ==
    /\ Configuring => net_builder.boot_nodes = last_boot_arg
    /\ (Configuring /\ last.setting = "boot_nodes") => net_builder.boot_nodes = last.arg
    /\ future.some => future.val.boot_nodes = last_boot_arg

C6_Witness ==
    /\ Configuring
    /\ last.setting = "boot_nodes"
    /\ pre.boot_nodes = <<Item1, Item1>>
    /\ last.arg = <<Item2>>
    /\ net_builder.boot_nodes = <<Item2>>

\* C7 as stated: every setting, the executor included, has a mutate-in-place
\* form that yields the state the chaining form yields.
C7_EverySettingHasBothForms ==
    (Configuring /\ last.setting \in Settings) =>
        /\ InPlaceMethods(last.setting) # {}
        /\ ChainingMethods(last.setting) # {}
        /\ last.setting = "boot_nodes" =>
              /\ net_builder = set_boot_nodes(pre, last.arg)
              /\ net_builder = with_boot_nodes(pre, last.arg)
        /\ last.setting = "chain_spec_protocol_id" =>
              /\ net_builder = set_chain_spec_protocol_id(pre, last.arg)
              /\ net_builder = with_chain_spec_protocol_id(pre, last.arg)

\* C7 amended: the boot-node list and the chain-spec protocol id each have an
\* in-place form and a chaining form that leave the same builder state for every
\* builder and argument; the executor has the chaining form with_executor only.
C7_BootNodesAndTagFormsAgree ==
    /\ InPlaceMethods("executor") = {}
    /\ ChainingMethods("executor") = {"with_executor"}
    /\ \A s \in {"boot_nodes", "chain_spec_protocol_id"} :
          InPlaceMethods(s) # {} /\ ChainingMethods(s) # {}
    /\ (Configuring /\ last.setting = "executor") => last.method = "with_executor"
    /\ (Configuring /\ last.setting = "boot_nodes") =>
          /\ net_builder = set_boot_nodes(pre, last.arg)
          /\ net_builder = with_boot_nodes(pre, last.arg)
    /\ (Configuring /\ last.setting = "chain_spec_protocol_id") =>
          /\ net_builder = set_chain_spec_protocol_id(pre, last.arg)
          /\ net_builder = with_chain_spec_protocol_id(pre, last.arg)

C7_Witness ==
    /\ Configuring
    /\ last.method = "with_boot_nodes"
    /\ pre.boot_nodes = <<Item1>>
    /\ pre.executor.some
    /\ last.arg = <<Item2, Item1>>
    /\ net_builder = set_boot_nodes(pre, <<Item2, Item1>>)

\* C8: a fresh builder has no executor, the tag "sup" and no boot nodes, and
\* each setter changes its own field only; the tag setter stores a copy of its
\* argument whatever its length.
C8_DefaultsAndFrames ==
    /\ last.method = "builder" =>
          /\ ~net_builder.executor.some
          /\ net_builder.chain_spec_protocol_id = <<115, 117, 112>>
          /\ Len(net_builder.chain_spec_protocol_id) = 3
          /\ net_builder.boot_nodes = <<>>
    /\ (Configuring /\ last.setting = "chain_spec_protocol_id") =>
          /\ net_builder.chain_spec_protocol_id = last.arg
          /\ net_builder.executor = pre.executor
          /\ net_builder.boot_nodes = pre.boot_nodes
    /\ (Configuring /\ last.setting = "boot_nodes") =>
          /\ net_builder.executor = pre.executor
          /\ net_builder.chain_spec_protocol_id = pre.chain_spec_protocol_id
    /\ (Configuring /\ last.setting = "executor") =>
          /\ net_builder.executor = [some |-> TRUE, val |-> last.arg]
          /\ net_builder.chain_spec_protocol_id = pre.chain_spec_protocol_id
          /\ net_builder.boot_nodes = pre.boot_nodes

C8_Witness ==
    /\ Configuring
    /\ last.method = "set_chain_spec_protocol_id"
    /\ last.arg = <<>>
    /\ pre.chain_spec_protocol_id = <<115, 117, 112>>
    /\ net_builder.chain_spec_protocol_id = <<>>
    /\ net_builder.executor.some
    /\ net_builder.boot_nodes = <<Item1>>

====
